---------------------------- MODULE Spec2Model ----------------------------
(***************************************************************************)
(* Model of the quiz catalog service (beep_rust): slug derivation          *)
(* (models.rs / models/utils.rs), topic creation (handlers.rs) and the     *)
(* transactional bulk ingestion of questions (handlers.rs).                *)
(*                                                                         *)
(* Strings are sequences of one-character strings.  Option<T> is a         *)
(* sequence of length 0 (None) or 1 (Some(v)).                             *)
(***************************************************************************)
EXTENDS Integers, Sequences, FiniteSets, TLC

VARIABLES
    \* ---- slug generator (pure function under test) ----
    name,        \* the &str handed to the slug function
    slugFn,      \* which function was called: "none", "generate_slug", "generateSlug"
    slugOut,     \* the String it returned
    slugOut2,    \* the String returned by a repeated call with the same name
    \* ---- store: topics table ----
    topics,      \* set of rows [id, name, slug, description]
    nextId,      \* next id the store hands out
    lastTopicOp, \* the last topic handler call and its outcome (history)
    \* ---- store: questions table and open transactions ----
    rows,        \* committed question rows, each <<call, index>>
    txn,         \* per call: state of its store transaction
    txrows,      \* per call: rows inserted inside its still uncommitted transaction
    \* ---- bulk_create_questions calls ----
    pc,          \* per call: position (the .await it is suspended at)
    payload,     \* per call: BulkCreateQuestions {topic_slug, questions}
    topic_id,    \* per call: Option of the resolved topic id
    index,       \* per call: number of loop iterations finished
    created,     \* per call: local `created`
    failed,      \* per call: local `failed`
    errors,      \* per call: local `errors`
    attempts,    \* per call: history of the INSERTs executed, in order
    decided,     \* per call: history of the commit/rollback decisions taken
    result,      \* per call: what the handler returned
    reply,       \* per call: the store's answer to COMMIT, not yet read by the call
    observed,    \* last result of a concurrent read of the questions table
    \* ---- store: questions written by create_question / update_question ----
    questions,   \* set of rows [id, topic_id, question_number, ..., tags]
    nextQid,     \* next question id the store hands out
    lastQuestionOp \* the last question handler call and its outcome (history)

slugVars  == <<name, slugFn, slugOut, slugOut2>>
topicVars == <<topics, nextId, lastTopicOp>>
storeVars == <<rows, txn, txrows, reply>>
callVars  == <<pc, payload, topic_id, index, created, failed, errors,
               attempts, decided, result>>
questionVars == <<questions, nextQid, lastQuestionOp>>
vars == <<slugVars, topicVars, storeVars, callVars, observed, questionVars>>

---------------------------------------------------------------------------
(* Bounds *)
MaxNameLen == 4
MaxSlugLen == 2
MaxItems   == 2
NumCalls   == 2
MaxTopics  == 2
MaxQuestions == 1
MaxQuestionCalls == 1
MaxOptions == 27

---------------------------------------------------------------------------
(* Strings *)

None    == <<>>
Some(v) == <<v>>

\* the characters names are built from: a lower-case letter, an upper-case
\* letter, a digit, the space, a tab, a hyphen, and "!" standing for every
\* character the first regex removes (punctuation, non-ASCII letters)
NameChars == {"a", "B", "1", " ", "\t", "-", "!"}

LowerLetters == {"a","b","c","d","e","f","g","h","i","j","k","l","m",
                 "n","o","p","q","r","s","t","u","v","w","x","y","z"}
Digits       == {"0","1","2","3","4","5","6","7","8","9"}
\* the class [a-z0-9-] of the first regex
SlugChars    == LowerLetters \cup Digits \cup {"-"}
\* char::is_whitespace for the characters of the model
WhiteSpace   == {" ", "\t"}

UpperToLower ==
    [A |-> "a", B |-> "b", C |-> "c", D |-> "d", E |-> "e", F |-> "f", G |-> "g",
     H |-> "h", I |-> "i", J |-> "j", K |-> "k", L |-> "l", M |-> "m", N |-> "n",
     O |-> "o", P |-> "p", Q |-> "q", R |-> "r", S |-> "s", T |-> "t", U |-> "u",
     V |-> "v", W |-> "w", X |-> "x", Y |-> "y", Z |-> "z"]

SeqsUpTo(S, n) == UNION {[1..k -> S] : k \in 0..n}

Names == SeqsUpTo(NameChars, MaxNameLen)

\* str::to_lowercase
to_lowercase(s) ==
    [i \in 1..Len(s) |-> IF s[i] \in DOMAIN UpperToLower THEN UpperToLower[s[i]] ELSE s[i]]

\* str::replace(" ", "-"): only U+0020 is replaced
replace_space(s) ==
    [i \in 1..Len(s) |-> IF s[i] = " " THEN "-" ELSE s[i]]

\* Regex [^a-z0-9-] replace_all with ""
strip_special(s) == SelectSeq(s, LAMBDA c : c \in SlugChars)

\* a slip that keeps runs of hyphens as they are
collapse_hyphens_kept(s) == s

\* Regex -+ replace_all with "-"
RECURSIVE collapse_hyphens(_)
collapse_hyphens(s) ==
    IF Len(s) <= 1 THEN s
    ELSE IF s[1] = "-" /\ s[2] = "-" THEN collapse_hyphens(Tail(s))
         ELSE <<s[1]>> \o collapse_hyphens(Tail(s))

\* str::trim_matches(c) for a set of characters
RECURSIVE trim_start(_, _)
trim_start(s, cs) ==
    IF s /= <<>> /\ s[1] \in cs THEN trim_start(Tail(s), cs) ELSE s

RECURSIVE trim_end(_, _)
trim_end(s, cs) ==
    IF s /= <<>> /\ s[Len(s)] \in cs THEN trim_end(SubSeq(s, 1, Len(s) - 1), cs) ELSE s

trim_matches(s, cs) == trim_end(trim_start(s, cs), cs)

\* str::trim
trim(s) == trim_matches(s, WhiteSpace)

\* the cleaning steps shared by generate_slug and generateSlug
clean_slug(n) ==
    trim_matches(collapse_hyphens(strip_special(replace_space(to_lowercase(n)))), {"-"})

\* byte values fed to the hasher
CharCode(c) ==
    CASE c = "a" -> 97 [] c = "B" -> 66 [] c = "1" -> 49 [] c = " " -> 32
      [] c = "\t" -> 9 [] c = "-" -> 45 [] c = "!" -> 33 [] OTHER -> 63

\* DefaultHasher::new(): SipHash with the fixed key (0, 0)
DefaultHasherNew == 0

HashModulus == 65536

\* name.hash(&mut hasher); hasher.finish().  The 64-bit SipHash digest is
\* abstracted to a keyed polynomial digest of the bytes of the name: what is
\* kept is that the digest is a function of the key and of the bytes only.
RECURSIVE hash_bytes(_, _)
hash_bytes(h, s) ==
    IF s = <<>> THEN (h * 31 + 255) % HashModulus
    ELSE hash_bytes((h * 31 + CharCode(s[1])) % HashModulus, Tail(s))

hash_finish(n) == hash_bytes(DefaultHasherNew, n)

\* format!("{}", u64)
DigitChar(d) == CASE d = 0 -> "0" [] d = 1 -> "1" [] d = 2 -> "2" [] d = 3 -> "3"
                  [] d = 4 -> "4" [] d = 5 -> "5" [] d = 6 -> "6" [] d = 7 -> "7"
                  [] d = 8 -> "8" [] OTHER -> "9"

RECURSIVE Decimal(_)
Decimal(n) == IF n < 10 THEN <<DigitChar(n)>>
              ELSE Decimal(n \div 10) \o <<DigitChar(n % 10)>>

TopicPrefix == <<"t","o","p","i","c","-">>
SlugPrefix  == <<"s","l","u","g","-">>

\* models.rs generate_slug
generate_slug(n) ==
    IF clean_slug(n) = <<>> THEN TopicPrefix \o Decimal(hash_finish(n))
    ELSE clean_slug(n)

\* models/utils.rs generateSlug
generateSlug(n) ==
    IF clean_slug(n) = <<>> THEN SlugPrefix \o Decimal(hash_finish(n))
    ELSE clean_slug(n)

---------------------------------------------------------------------------
(* Slug generator under test: one name, one call, one repeated call *)

InitSlugVars ==
    /\ slugFn = "none"
    /\ slugOut = <<>>
    /\ slugOut2 = <<>>

\* a caller invokes models.rs generate_slug(name)
CallGenerateSlug ==
    /\ slugFn = "none"
    /\ slugFn' = "generate_slug"
    /\ slugOut' = generate_slug(name)
    /\ UNCHANGED <<name, slugOut2>>
    /\ UNCHANGED <<topicVars, storeVars, callVars, observed, questionVars>>

\* a caller invokes models/utils.rs generateSlug(name)
CallGenerateSlugUtils ==
    /\ slugFn = "none"
    /\ slugFn' = "generateSlug"
    /\ slugOut' = generateSlug(name)
    /\ UNCHANGED <<name, slugOut2>>
    /\ UNCHANGED <<topicVars, storeVars, callVars, observed, questionVars>>

\* the same function is invoked once more with the same name
RepeatCall ==
    /\ slugFn /= "none"
    /\ slugOut2 = <<>>
    /\ slugOut2' = IF slugFn = "generate_slug" THEN generate_slug(name)
                   ELSE generateSlug(name)
    /\ UNCHANGED <<name, slugFn, slugOut>>
    /\ UNCHANGED <<topicVars, storeVars, callVars, observed, questionVars>>

---------------------------------------------------------------------------
(* Bulk ingestion: bulk_create_questions and the store it talks to *)

Calls == 1..NumCalls

\* a submitted item is one the store accepts ("valid") or one whose INSERT
\* the store rejects ("invalid": a constraint or encoding error)
Items == {"valid", "invalid"}

ExistingSlug == <<"a">>
MissingSlug  == <<"b">>

Payloads ==
    [topic_slug : {ExistingSlug, MissingSlug}, questions : SeqsUpTo(Items, MaxItems)]

NoPayload == [topic_slug |-> <<>>, questions |-> <<>>]
NoResult  == [kind |-> "none"]

\* the rows of the batch of call c
BatchRows(c) == {<<c, i>> : i \in 1..Len(payload[c].questions)}

\* SELECT id FROM topics WHERE slug = $1, fetch_optional
select_id_by_slug(slug) ==
    IF \E t \in topics : t.slug = slug
    THEN Some((CHOOSE t \in topics : t.slug = slug).id)
    ELSE None

\* the message of get_topic_by_slug, which does not quote the slug
NotFoundMessage_plain(slug) == <<"Topic not found">>

\* format!("Topic with slug '{}' not found", slug)
NotFoundMessage(slug) == <<"Topic with slug '", slug, "' not found">>

ErrorResult(status, message) ==
    [kind |-> "Error", status |-> status, message |-> message]

\* BulkCreateResponse {created, failed, errors} inside ApiResponse::success
BulkResult(c, f, e) ==
    [kind |-> "BulkResult", status |-> 200, created |-> c, failed |-> f, errors |-> e]

\* a diagnostic numbered with the 0-based loop index itself
ErrorEntry_zero_based(idx, cause) == <<"Question ", idx, ": ", cause>>

\* format!("Question {}: {}", index + 1, e) with the 0-based loop index
ErrorEntry(idx, cause) == <<"Question ", idx + 1, ": ", cause>>

\* what the store answers to an INSERT executed inside transaction state t:
\* once a statement has failed, PostgreSQL refuses every later statement of
\* the transaction until it is rolled back
InsertOutcome(t, item) ==
    IF t = "aborted" THEN "current transaction is aborted"
    ELSE IF item = "invalid" THEN "rejected"
    ELSE "ok"

\* .execute(&pool) instead of .execute(&mut *transaction)
Executor_pool == "pool"

\* line 477: the INSERT is executed on the transaction
Executor == "transaction"

\* a loop that gives up at the first failed item
AfterIteration_break(n, idx, f) ==
    IF f > 0 THEN "rollback" ELSE IF idx < n THEN "loop" ELSE "commit"

\* a decision with the test inverted
AfterIteration_inverted(n, idx, f) ==
    IF idx < n THEN "loop" ELSE IF f = 0 THEN "rollback" ELSE "commit"

\* lines 461 and 489: the next suspension point after idx iterations of a
\* batch of n items with f failures so far: the next INSERT, or after the
\* last one the COMMIT (failed == 0) or the ROLLBACK
AfterIteration(n, idx, f) ==
    IF idx < n THEN "loop" ELSE IF f = 0 THEN "commit" ELSE "rollback"

\* history of the commit/rollback decisions: taken when the loop is left
Decision(next, idx) ==
    IF next = "loop" THEN <<>> ELSE <<[kind |-> next, after |-> idx]>>

\* Transaction::drop: a transaction still open is rolled back
OnDrop(t) == IF t \in {"open", "aborted"} THEN "rolledback" ELSE t

InitCallVars ==
    /\ pc = [c \in Calls |-> "idle"]
    /\ payload = [c \in Calls |-> NoPayload]
    /\ topic_id = [c \in Calls |-> None]
    /\ index = [c \in Calls |-> 0]
    /\ created = [c \in Calls |-> 0]
    /\ failed = [c \in Calls |-> 0]
    /\ errors = [c \in Calls |-> <<>>]
    /\ attempts = [c \in Calls |-> <<>>]
    /\ decided = [c \in Calls |-> <<>>]
    /\ result = [c \in Calls |-> NoResult]

InitStoreVars ==
    /\ rows = {}
    /\ txn = [c \in Calls |-> "none"]
    /\ txrows = [c \in Calls |-> {}]
    /\ reply = [c \in Calls |-> "none"]
    /\ observed = {}

NoQuestionOp == [op |-> "none", seq |-> 0]

InitQuestionVars ==
    /\ questions = {}
    /\ nextQid = 1
    /\ lastQuestionOp = NoQuestionOp

\* the call arrives with its payload and issues the slug lookup (line 448)
Submit(c, p) ==
    /\ pc[c] = "idle"
    /\ pc' = [pc EXCEPT ![c] = "resolve"]
    /\ payload' = [payload EXCEPT ![c] = p]
    /\ UNCHANGED <<topic_id, index, created, failed, errors, attempts, decided, result>>
    /\ UNCHANGED <<slugVars, topicVars, storeVars, observed, questionVars>>

\* get_topic_id_by_slug returns: a store error, NotFound, or the id
ResolveTopic(c, dbok) ==
    /\ pc[c] = "resolve"
    /\ LET found == select_id_by_slug(payload[c].topic_slug) IN
         IF ~dbok
         THEN /\ result' = [result EXCEPT ![c] = ErrorResult(500, <<"Database error: ", "io">>)]
              /\ pc' = [pc EXCEPT ![c] = "done"]
              /\ UNCHANGED topic_id
         ELSE IF found = None
         THEN /\ result' = [result EXCEPT ![c] =
                               ErrorResult(404, NotFoundMessage(payload[c].topic_slug))]
              /\ pc' = [pc EXCEPT ![c] = "done"]
              /\ UNCHANGED topic_id
         ELSE /\ topic_id' = [topic_id EXCEPT ![c] = found]
              /\ pc' = [pc EXCEPT ![c] = "begin"]
              /\ UNCHANGED result
    /\ UNCHANGED <<payload, index, created, failed, errors, attempts, decided>>
    /\ UNCHANGED <<slugVars, topicVars, storeVars, observed, questionVars>>

\* pool.begin() returns (lines 454-459); an empty batch goes straight to
\* the decision of line 489
BeginTransaction(c, ok) ==
    /\ pc[c] = "begin"
    /\ IF ok
       THEN LET next == AfterIteration(Len(payload[c].questions), 0, 0) IN
            /\ txn' = [txn EXCEPT ![c] = "open"]
            /\ pc' = [pc EXCEPT ![c] = next]
            /\ decided' = [decided EXCEPT ![c] = @ \o Decision(next, 0)]
            /\ UNCHANGED result
       ELSE /\ result' = [result EXCEPT ![c] =
                             ErrorResult(500, <<"Failed to start transaction: ", "io">>)]
            /\ pc' = [pc EXCEPT ![c] = "done"]
            /\ UNCHANGED <<txn, decided>>
    /\ UNCHANGED <<payload, topic_id, index, created, failed, errors, attempts>>
    /\ UNCHANGED <<slugVars, topicVars, rows, txrows, reply, observed, questionVars>>

\* the foreign reference questions.topic_id -> topics.id, checked by the
\* store when a question row is written
FkHolds(tid) == \E t \in topics : t.id = tid

\* one iteration of the loop of lines 461-487: the INSERT of the next item
\* returns and its result is matched
ExecuteInsert(c) ==
    /\ pc[c] = "loop"
    /\ LET idx     == index[c]
           item    == IF FkHolds(topic_id[c][1]) THEN payload[c].questions[idx + 1]
                      ELSE "invalid"
           outcome == IF Executor = "transaction" THEN InsertOutcome(txn[c], item)
                      ELSE InsertOutcome("open", item)
           f       == IF outcome = "ok" THEN failed[c] ELSE failed[c] + 1
           next    == AfterIteration(Len(payload[c].questions), idx + 1, f)
       IN
       /\ attempts' = [attempts EXCEPT ![c] = Append(@, idx + 1)]
       /\ IF outcome = "ok"
          THEN /\ created' = [created EXCEPT ![c] = @ + 1]
               /\ UNCHANGED <<failed, errors>>
          ELSE /\ failed' = [failed EXCEPT ![c] = f]
               /\ errors' = [errors EXCEPT ![c] = Append(@, ErrorEntry(idx, outcome))]
               /\ UNCHANGED created
       /\ IF Executor = "transaction"
          THEN /\ txrows' = [txrows EXCEPT ![c] =
                                IF outcome = "ok" THEN @ \cup {<<c, idx + 1>>} ELSE @]
               /\ txn' = [txn EXCEPT ![c] = IF outcome = "ok" THEN @ ELSE "aborted"]
               /\ UNCHANGED rows
          ELSE /\ rows' = IF outcome = "ok" THEN rows \cup {<<c, idx + 1>>} ELSE rows
               /\ UNCHANGED <<txn, txrows>>
       /\ index' = [index EXCEPT ![c] = idx + 1]
       /\ pc' = [pc EXCEPT ![c] = next]
       /\ decided' = [decided EXCEPT ![c] = @ \o Decision(next, idx + 1)]
    /\ UNCHANGED <<payload, topic_id, result>>
    /\ UNCHANGED <<slugVars, topicVars, reply, observed, questionVars>>

\* what the store does with a COMMIT: an open transaction is applied, or
\* refused with an error; a failed transaction is rolled back without error
StoreCommit(t, accept) ==
    IF t = "open" /\ accept THEN [txn |-> "committed", reply |-> "ok"]
    ELSE IF t = "open" THEN [txn |-> "rolledback", reply |-> "error"]
    ELSE [txn |-> "rolledback", reply |-> "ok"]

\* transaction.commit() (line 490): the COMMIT reaches the store
CommitRequest(c, accept) ==
    /\ pc[c] = "commit"
    /\ LET s == StoreCommit(txn[c], accept) IN
       /\ txn' = [txn EXCEPT ![c] = s.txn]
       /\ reply' = [reply EXCEPT ![c] = s.reply]
       /\ rows' = IF s.txn = "committed" THEN rows \cup txrows[c] ELSE rows
    /\ txrows' = [txrows EXCEPT ![c] = {}]
    /\ pc' = [pc EXCEPT ![c] = "commit_wait"]
    /\ UNCHANGED <<payload, topic_id, index, created, failed, errors, attempts,
                   decided, result>>
    /\ UNCHANGED <<slugVars, topicVars, observed, questionVars>>

\* an error result of commit() that is swallowed instead of propagated
CommitReturn_swallowed(ok, c, f, e) == BulkResult(c, f, e)

\* lines 490-495 and 505-511: commit() returned Ok, or its error is mapped
\* to the 500 answer by map_err and `?`
CommitReturn(ok, c, f, e) ==
    IF ok THEN BulkResult(c, f, e)
    ELSE ErrorResult(500, <<"Failed to commit transaction: ", "io">>)

\* transaction.commit().await returns: the answer of the store is read, or
\* reading it fails (the connection broke after the COMMIT was sent)
CommitResponse(c, delivered) ==
    /\ pc[c] = "commit_wait"
    /\ result' = [result EXCEPT ![c] =
                     CommitReturn(reply[c] = "ok" /\ delivered,
                                  created[c], failed[c], errors[c])]
    /\ txn' = [txn EXCEPT ![c] = OnDrop(@)]
    /\ reply' = [reply EXCEPT ![c] = "none"]
    /\ pc' = [pc EXCEPT ![c] = "done"]
    /\ UNCHANGED <<payload, topic_id, index, created, failed, errors, attempts, decided>>
    /\ UNCHANGED <<slugVars, topicVars, rows, txrows, observed, questionVars>>

\* transaction.rollback() (lines 497-502) returns; when it fails the
\* transaction is dropped, and the store discards it with the connection
RollbackTransaction(c, ok) ==
    /\ pc[c] = "rollback"
    /\ txn' = [txn EXCEPT ![c] = OnDrop(@)]
    /\ txrows' = [txrows EXCEPT ![c] = {}]
    /\ result' = [result EXCEPT ![c] =
                     IF ok THEN BulkResult(created[c], failed[c], errors[c])
                     ELSE ErrorResult(500, <<"Failed to rollback transaction: ", "io">>)]
    /\ pc' = [pc EXCEPT ![c] = "done"]
    /\ UNCHANGED <<payload, topic_id, index, created, failed, errors, attempts, decided>>
    /\ UNCHANGED <<slugVars, topicVars, rows, reply, observed, questionVars>>

\* the suspension points of the handler
AwaitPoints == {"resolve", "begin", "loop", "commit", "commit_wait", "rollback"}

\* the caller gives up while the handler is suspended: the future is
\* dropped, and with it the Transaction it owns
Abandon(c) ==
    /\ pc[c] \in AwaitPoints
    /\ result' = [result EXCEPT ![c] = [kind |-> "abandoned", at |-> pc[c]]]
    /\ txn' = [txn EXCEPT ![c] = OnDrop(@)]
    /\ txrows' = [txrows EXCEPT ![c] = {}]
    /\ reply' = [reply EXCEPT ![c] = "none"]
    /\ pc' = [pc EXCEPT ![c] = "abandoned"]
    /\ UNCHANGED <<payload, topic_id, index, created, failed, errors, attempts, decided>>
    /\ UNCHANGED <<slugVars, topicVars, rows, observed, questionVars>>

\* a concurrent reader (get_questions_by_topic) reads the committed rows
ReadQuestions ==
    /\ observed' = rows
    /\ UNCHANGED <<slugVars, topicVars, storeVars, callVars, questionVars>>

---------------------------------------------------------------------------
(* Topic creation: create_topic and the topics table *)

\* the characters of the slugs callers supply
SlugInputChars == {"a", "B", " ", "\t"}

SlugInputs == {None} \cup {Some(x) : x \in SeqsUpTo(SlugInputChars, MaxSlugLen)}

\* the names callers supply
TopicNames == {<<"a">>, <<"B", " ", "a">>, <<"!">>}

\* the descriptions callers supply
Descriptions == {None, Some(<<"d">>)}

NoTopicOp == [op |-> "none"]

\* a test that forgets to trim
slug_is_empty_untrimmed(s) == IF s = None THEN TRUE ELSE s[1] = <<>>

\* lines 82-85: match &payload.slug { Some(s) => s.trim().is_empty(), None => true }
slug_is_empty(s) == IF s = None THEN TRUE ELSE trim(s[1]) = <<>>

\* lines 86-92: the slug bound to the INSERT
create_topic_slug(n, s) ==
    LET derived == IF slug_is_empty(s) THEN Some(generate_slug(n)) ELSE s
    IN  IF derived /= None THEN Some(trim(derived[1])) ELSE derived

\* the unique constraint of topics.slug
SlugTaken(slug) == \E t \in topics : t.slug = slug

\* what the store answers to the INSERT of a topic: a row, a violation of
\* the unique constraint, or another failure
TopicInsertOutcome(slug, dbok) ==
    IF ~dbok THEN "io" ELSE IF SlugTaken(slug) THEN "unique_violation" ELSE "ok"

\* lines 102-107: every error of the INSERT is mapped to INTERNAL_SERVER_ERROR
create_topic_status(outcome) == IF outcome = "ok" THEN 200 ELSE 500

\* create_topic: the slug is prepared, the INSERT runs, its row or its
\* error is returned
CreateTopic(n, s, d, dbok) ==
    /\ Cardinality(topics) < MaxTopics
    /\ LET slug    == create_topic_slug(n, s)
           row     == [id |-> nextId, name |-> n, slug |-> slug[1], description |-> d]
           outcome == TopicInsertOutcome(slug[1], dbok)
       IN  IF outcome = "ok"
           THEN /\ topics' = topics \cup {row}
                /\ nextId' = nextId + 1
                /\ lastTopicOp' = [op |-> "create_topic", name |-> n, slug |-> s,
                                   derived |-> slug_is_empty(s),
                                   outcome |-> outcome,
                                   status |-> create_topic_status(outcome),
                                   row |-> Some(row)]
           ELSE /\ lastTopicOp' = [op |-> "create_topic", name |-> n, slug |-> s,
                                   derived |-> slug_is_empty(s),
                                   outcome |-> outcome,
                                   status |-> create_topic_status(outcome),
                                   row |-> None]
                /\ UNCHANGED <<topics, nextId>>
    /\ UNCHANGED <<slugVars, storeVars, callVars, observed, questionVars>>

---------------------------------------------------------------------------
(* Topic update: update_topic *)

\* the topics two create_topic calls have stored
StoredTopics ==
    {[id |-> 1, name |-> <<"a">>, slug |-> <<"a">>, description |-> None],
     [id |-> 2, name |-> <<"B", " ", "a">>, slug |-> <<"b", "-", "a">>,
      description |-> Some(<<"d">>)]}

\* the fields callers supply to update_topic
UpdateNames == {None, Some(<<"c">>)}
UpdateSlugs == {None, Some(<<>>), Some(<<" ">>), Some(<<"B">>), Some(<<"b", "-", "a">>)}
UpdateDescriptions == {None, Some(<<"e">>)}

\* a slug regenerated from the name whenever none is supplied, as in create_topic
update_topic_slug_regenerated(n, s) ==
    IF n /= None /\ slug_is_empty(s) THEN Some(generate_slug(n[1])) ELSE s

\* lines 117-121: the slug bound to the UPDATE: regenerated from the name
\* only when both are supplied and the slug is blank
update_topic_slug(n, s) ==
    IF n /= None /\ s /= None /\ trim(s[1]) = <<>> THEN Some(generate_slug(n[1])) ELSE s

\* COALESCE($n, column) with a stray NULL for the bound value
COALESCE_overwrite(p, old) == IF p = None THEN <<>> ELSE p[1]

\* COALESCE($n, column)
COALESCE(p, old) == IF p = None THEN old ELSE p[1]

\* the row the UPDATE of lines 123-129 leaves for the row old
updated_topic(old, n, s, d) ==
    [id |-> old.id,
     name |-> COALESCE(n, old.name),
     slug |-> COALESCE(update_topic_slug(n, s), old.slug),
     description |-> IF d = None THEN old.description ELSE d]

\* update_topic: the slug is prepared, the UPDATE runs, and its row, the
\* 404 answer (no row has the id) or the 500 answer (store error) is returned
UpdateTopic(id, n, s, d, dbok) ==
    /\ LET target == {t \in topics : t.id = id}
           op(status) == [op |-> "update_topic", id |-> id, name |-> n, slug |-> s,
                          description |-> d, status |-> status, before |-> topics]
       IN  IF ~dbok
           THEN lastTopicOp' = op(500) /\ UNCHANGED topics
           ELSE IF target = {}
           THEN lastTopicOp' = op(404) /\ UNCHANGED topics
           ELSE LET old == CHOOSE t \in target : TRUE
                    new == updated_topic(old, n, s, d)
                IN  IF \E t \in topics \ {old} : t.slug = new.slug
                    THEN lastTopicOp' = op(500) /\ UNCHANGED topics
                    ELSE /\ topics' = (topics \ {old}) \cup {new}
                         /\ lastTopicOp' = op(200)
    /\ UNCHANGED nextId
    /\ UNCHANGED <<slugVars, storeVars, callVars, observed, questionVars>>

---------------------------------------------------------------------------
(* Topic deletion and the question handlers *)

\* delete_topic: DELETE FROM topics WHERE id = $1; the questions of the
\* topic are neither deleted with it nor a reason to refuse it
DeleteTopic(id, dbok) ==
    /\ LET target == {t \in topics : t.id = id}
           op(status) == [op |-> "delete_topic", id |-> id, status |-> status]
       IN  IF ~dbok
           THEN lastTopicOp' = op(500) /\ UNCHANGED topics
           ELSE IF target = {}
           THEN lastTopicOp' = op(404) /\ UNCHANGED topics
           ELSE topics' = topics \ target /\ lastTopicOp' = op(200)
    /\ UNCHANGED nextId
    /\ UNCHANGED <<slugVars, storeVars, callVars, observed, questionVars>>

\* the columns of a question an UPDATE can set
QuestionFields ==
    {"topic_id", "question_number", "question", "options", "correct_answer",
     "explanation", "question_type", "difficulty", "tags"}

\* CreateQuestion payloads: difficulty and tags are optional
CreateQuestionPayloads ==
    [topic_id : 1..(MaxTopics + 1), question_number : {1}, question : {<<"q">>},
     options : {<<"x", "y">>}, correct_answer : {<<"x">>}, explanation : {<<"e">>},
     question_type : {"single"}, difficulty : {None, Some("easy")},
     tags : {None, Some(<<"t">>)}]

\* UpdateQuestion payloads: every field is optional
UpdateQuestionPayloads ==
    [topic_id : {None, Some(2), Some(MaxTopics + 1)},
     question_number : {None, Some(2)}, question : {None, Some(<<"r">>)},
     options : {None, Some(<<"y">>)}, correct_answer : {None, Some(<<"y">>)},
     explanation : {None, Some(<<"f">>)}, question_type : {None, Some("multiple")},
     difficulty : {None, Some("hard")}, tags : {None, Some(<<"u">>)}]

\* payload.difficulty.unwrap_or(Difficulty::Medium)
difficulty_or_default(d) == IF d = None THEN "medium" ELSE d[1]

\* create_question: INSERT ... RETURNING *, or the 500 answer
CreateQuestion(p, dbok) ==
    /\ Cardinality(questions) < MaxQuestions
    /\ LET row == [id |-> nextQid, topic_id |-> p.topic_id,
                   question_number |-> p.question_number, question |-> p.question,
                   options |-> p.options, correct_answer |-> p.correct_answer,
                   explanation |-> p.explanation, question_type |-> p.question_type,
                   difficulty |-> difficulty_or_default(p.difficulty), tags |-> p.tags]
           op(status) == [op |-> "create_question", seq |-> lastQuestionOp.seq + 1,
                          payload |-> p, status |-> status, before |-> questions]
       IN  IF dbok /\ FkHolds(p.topic_id)
           THEN /\ questions' = questions \cup {row}
                /\ nextQid' = nextQid + 1
                /\ lastQuestionOp' = op(200)
           ELSE /\ lastQuestionOp' = op(500)
                /\ UNCHANGED <<questions, nextQid>>
    /\ UNCHANGED <<slugVars, topicVars, storeVars, callVars, observed>>

\* the row the UPDATE statement of update_question leaves for the row old
updated_question(old, p) ==
    [id |-> old.id,
     topic_id |-> COALESCE(p.topic_id, old.topic_id),
     question_number |-> COALESCE(p.question_number, old.question_number),
     question |-> COALESCE(p.question, old.question),
     options |-> COALESCE(p.options, old.options),
     correct_answer |-> COALESCE(p.correct_answer, old.correct_answer),
     explanation |-> COALESCE(p.explanation, old.explanation),
     question_type |-> COALESCE(p.question_type, old.question_type),
     difficulty |-> COALESCE(p.difficulty, old.difficulty),
     tags |-> IF p.tags = None THEN old.tags ELSE p.tags]

\* update_question: the UPDATE runs, and its row, the 404 answer (no row has
\* the id) or the 500 answer (store error) is returned
UpdateQuestion(id, p, dbok) ==
    /\ LET target == {q \in questions : q.id = id}
           op(status) == [op |-> "update_question", seq |-> lastQuestionOp.seq + 1,
                          id |-> id, payload |-> p, status |-> status,
                          before |-> questions]
       IN  IF ~dbok
           THEN lastQuestionOp' = op(500) /\ UNCHANGED questions
           ELSE IF target = {}
           THEN lastQuestionOp' = op(404) /\ UNCHANGED questions
           ELSE LET old == CHOOSE q \in target : TRUE
                    new == updated_question(old, p)
                IN  IF new.topic_id /= old.topic_id /\ ~FkHolds(new.topic_id)
                    THEN lastQuestionOp' = op(500) /\ UNCHANGED questions
                    ELSE /\ questions' = (questions \ {old}) \cup {new}
                         /\ lastQuestionOp' = op(200)
    /\ UNCHANGED nextQid
    /\ UNCHANGED <<slugVars, topicVars, storeVars, callVars, observed>>

---------------------------------------------------------------------------
(* Question listing: get_questions *)

\* An i64 is its two's complement bit pattern, eight bytes, least
\* significant byte first.
ByteModulus == 256
I64Bytes == 8
SignByte == 128
Pow256 == <<1, 256, 65536, 16777216>>

\* the i64 of an integer literal n
I64(n) ==
    [i \in 1..I64Bytes |->
        IF i <= Len(Pow256) THEN (n \div Pow256[i]) % ByteModulus
        ELSE IF n < 0 THEN ByteModulus - 1 ELSE 0]

\* i64::MAX and i64::MIN
I64Max == [i \in 1..I64Bytes |-> IF i = I64Bytes THEN SignByte - 1 ELSE ByteModulus - 1]
I64Min == [i \in 1..I64Bytes |-> IF i = I64Bytes THEN SignByte ELSE 0]

IsNegative(x) == x[I64Bytes] >= SignByte

UnsignedLess(a, b) ==
    \E i \in 1..Len(a) : a[i] < b[i] /\ \A j \in (i + 1)..Len(a) : a[j] = b[j]

\* a < b on i64
I64Less(a, b) ==
    IF IsNegative(a) /= IsNegative(b) THEN IsNegative(a) ELSE UnsignedLess(a, b)

\* Ord::max and Ord::min on i64
i64_max(a, b) == IF I64Less(a, b) THEN b ELSE a
i64_min(a, b) == IF I64Less(b, a) THEN b ELSE a

\* Option::unwrap_or
unwrap_or(o, default) == IF o = None THEN default ELSE o[1]

\* the bytes of the number whose i-th base-256 digit is cols[i], carries
\* propagated upwards and the carry out of the last byte dropped
RECURSIVE Carry(_, _, _)
Carry(cols, i, c) ==
    IF i > Len(cols) THEN <<>>
    ELSE <<(cols[i] + c) % ByteModulus>>
             \o Carry(cols, i + 1, (cols[i] + c) \div ByteModulus)

wrapping_add(a, b) == Carry([i \in 1..I64Bytes |-> a[i] + b[i]], 1, 0)
wrapping_neg(a) == Carry([i \in 1..I64Bytes |-> ByteModulus - 1 - a[i]], 1, 1)
wrapping_sub(a, b) == wrapping_add(a, wrapping_neg(b))

\* the 128-bit product of two unsigned 64-bit numbers, sixteen bytes
WideProduct(a, b) ==
    Carry([k \in 1..(2 * I64Bytes) |->
              LET Term[i \in 0..I64Bytes] ==
                      IF i = 0 THEN 0
                      ELSE Term[i - 1]
                           + (IF k + 1 - i \in 1..I64Bytes THEN a[i] * b[k + 1 - i] ELSE 0)
              IN  Term[I64Bytes]], 1, 0)

wrapping_mul(a, b) == SubSeq(WideProduct(a, b), 1, I64Bytes)

\* |a| as an unsigned 64-bit number
Magnitude(a) == IF IsNegative(a) THEN wrapping_neg(a) ELSE a

\* a - b leaves the i64 range
sub_overflows(a, b) ==
    /\ IsNegative(a) /= IsNegative(b)
    /\ IsNegative(wrapping_sub(a, b)) /= IsNegative(a)

\* a * b leaves the i64 range
mul_overflows(a, b) ==
    LET w == WideProduct(Magnitude(a), Magnitude(b))
        low == SubSeq(w, 1, I64Bytes)
    IN  \/ \E i \in (I64Bytes + 1)..(2 * I64Bytes) : w[i] /= 0
        \/ IsNegative(low) /\ ~(IsNegative(a) /= IsNegative(b) /\ low = I64Min)

\* the page and limit values callers send
PageInputs ==
    {None, Some(I64(-1)), Some(I64(0)), Some(I64(1)), Some(I64(2)), Some(I64(3)),
     Some(I64(257)), Some(I64(65536)), Some(I64Min), Some(I64Max),
     Some(wrapping_sub(I64Max, I64(1)))}

LimitInputs ==
    {None, Some(I64(-5)), Some(I64(0)), Some(I64(1)), Some(I64(2)), Some(I64(20)),
     Some(I64(100)), Some(I64(101)), Some(I64(500)), Some(I64Min), Some(I64Max)}

QuestionQueries == [page : PageInputs, limit : LimitInputs]

\* query.page.unwrap_or(1).max(1)
effective_page(query) == i64_max(unwrap_or(query.page, I64(1)), I64(1))

\* a limit that is only raised to 1
effective_limit_uncapped(query) == i64_max(unwrap_or(query.limit, I64(20)), I64(1))

\* query.limit.unwrap_or(20).max(1).min(100)
effective_limit(query) ==
    i64_min(i64_max(unwrap_or(query.limit, I64(20)), I64(1)), I64(100))

\* the questions table the listing reads: two questions of topic 1
StoredQuestions ==
    {[id |-> 1, topic_id |-> 1, question_number |-> 2, question |-> <<"q">>,
      options |-> <<"x", "y">>, correct_answer |-> <<"x">>, explanation |-> <<"e">>,
      question_type |-> "single", difficulty |-> "medium", tags |-> None],
     [id |-> 2, topic_id |-> 1, question_number |-> 1, question |-> <<"p">>,
      options |-> <<"x", "z">>, correct_answer |-> <<"z">>, explanation |-> <<"g">>,
      question_type |-> "single", difficulty |-> "easy", tags |-> Some(<<"t">>)]}

\* SELECT q.* FROM questions q JOIN topics t ... ORDER BY t.name,
\* q.question_number, for questions of one topic
ordered_questions ==
    LET joined == {q \in questions : FkHolds(q.topic_id)}
    IN  CHOOSE s \in [1..Cardinality(joined) -> joined] :
            /\ \A q \in joined : \E i \in DOMAIN s : s[i] = q
            /\ \A i, j \in DOMAIN s :
                   i < j => s[i].question_number <= s[j].question_number

\* LIMIT limit OFFSET offset over the ordered rows
limit_offset(s, limit, offset) ==
    LET kept == {i \in DOMAIN s :
                    /\ ~I64Less(I64(i - 1), offset)
                    /\ I64Less(wrapping_sub(I64(i - 1), offset), limit)}
        Rest[i \in 0..Len(s)] ==
            IF i = 0 THEN <<>>
            ELSE IF i \in kept THEN Append(Rest[i - 1], s[i].id) ELSE Rest[i - 1]
    IN  Rest[Len(s)]

\* get_questions: clamp page and limit, compute the offset, run the SELECT.
\* checks says whether the build traps arithmetic overflow (debug profile)
\* or wraps (release profile); the store refuses a negative OFFSET.
GetQuestions(query, checks, dbok) ==
    /\ lastQuestionOp.seq < MaxQuestionCalls
    /\ LET page == effective_page(query)
           limit == effective_limit(query)
           previous == wrapping_sub(page, I64(1))
           offset == wrapping_mul(previous, limit)
           op(outcome, off, ids) ==
               [op |-> "get_questions", seq |-> lastQuestionOp.seq + 1, query |-> query,
                page |-> page, limit |-> limit, offset |-> off,
                outcome |-> outcome, data |-> ids]
       IN  IF checks /\ (sub_overflows(page, I64(1)) \/ mul_overflows(previous, limit))
           THEN lastQuestionOp' = op("panic", None, <<>>)
           ELSE IF ~dbok \/ IsNegative(offset)
           THEN lastQuestionOp' = op("internal", Some(offset), <<>>)
           ELSE lastQuestionOp' =
                    op("ok", Some(offset), limit_offset(ordered_questions, limit, offset))
    /\ UNCHANGED <<questions, nextQid>>
    /\ UNCHANGED <<slugVars, topicVars, storeVars, callVars, observed>>

---------------------------------------------------------------------------
(* Question responses: get_question and the option map *)

\* the characters with the code points 65, 66, ..., 95
AsciiFrom65 ==
    <<"A", "B", "C", "D", "E", "F", "G", "H", "I", "J", "K", "L", "M",
      "N", "O", "P", "Q", "R", "S", "T", "U", "V", "W", "X", "Y", "Z",
      "[", "\\", "]", "^", "_">>

FirstLabelCode == 65

\* std::char::from_u32(c).unwrap() for the code points 65..95, all of which
\* are characters
from_u32(c) == AsciiFrom65[c - FirstLabelCode + 1]

\* the label of the option at 0-based position i
option_label(i) == <<from_u32(FirstLabelCode + i)>>

\* HashMap::insert
hashmap_insert(m, k, v) == [x \in DOMAIN m \cup {k} |-> IF x = k THEN v ELSE m[x]]

\* the pairs (label, text) of options[1..n], collected into a HashMap
RECURSIVE collect_options(_, _)
collect_options(options, n) ==
    IF n = 0 THEN <<>>
    ELSE hashmap_insert(collect_options(options, n - 1),
                        option_label(n - 1), options[n])

serialize_options_as_map(options) == collect_options(options, Len(options))

\* QuestionResponse::from(q), serialized
QuestionResponse(q) == [q EXCEPT !.options = serialize_options_as_map(q.options)]

\* the option lists stored questions carry
OptionTexts == {"p", "q"}
OptionLists ==
    SeqsUpTo(OptionTexts, 5)
        \cup {[i \in 1..n |-> IF i % 2 = 0 THEN "p" ELSE "q"] : n \in 25..MaxOptions}

\* get_question: SELECT * FROM questions WHERE id = $1, answered with the
\* response form of the row, the 404 answer or the 500 answer
GetQuestion(id, dbok) ==
    /\ lastQuestionOp.seq < MaxQuestionCalls
    /\ LET target == {q \in questions : q.id = id}
           op(status, data) ==
               [op |-> "get_question", seq |-> lastQuestionOp.seq + 1, id |-> id,
                status |-> status, data |-> data, before |-> questions]
       IN  IF ~dbok THEN lastQuestionOp' = op(500, None)
           ELSE IF target = {} THEN lastQuestionOp' = op(404, None)
           ELSE lastQuestionOp' =
                    op(200, Some(QuestionResponse(CHOOSE q \in target : TRUE)))
    /\ UNCHANGED <<questions, nextQid>>
    /\ UNCHANGED <<slugVars, topicVars, storeVars, callVars, observed>>

---------------------------------------------------------------------------
(* Specifications *)

\* bulk ingestion: concurrent bulk_create_questions calls and readers over
\* a store that holds one topic
Init ==
    /\ name = <<>>
    /\ InitSlugVars
    /\ topics = {[id |-> 1, name |-> ExistingSlug, slug |-> ExistingSlug,
                   description |-> None]}
    /\ nextId = 2
    /\ lastTopicOp = NoTopicOp
    /\ InitStoreVars
    /\ InitQuestionVars
    /\ InitCallVars

Next ==
    \/ \E c \in Calls : \E p \in Payloads : Submit(c, p)
    \/ \E c \in Calls : \E dbok \in BOOLEAN : ResolveTopic(c, dbok)
    \/ \E c \in Calls : \E ok \in BOOLEAN : BeginTransaction(c, ok)
    \/ \E c \in Calls : ExecuteInsert(c)
    \/ \E c \in Calls : \E accept \in BOOLEAN : CommitRequest(c, accept)
    \/ \E c \in Calls : \E delivered \in BOOLEAN : CommitResponse(c, delivered)
    \/ \E c \in Calls : \E ok \in BOOLEAN : RollbackTransaction(c, ok)
    \/ \E c \in Calls : Abandon(c)
    \/ ReadQuestions

Spec == Init /\ [][Next]_vars

\* the slug functions applied to every name of the bounded set
SlugInit ==
    /\ name \in Names
    /\ InitSlugVars
    /\ topics = {}
    /\ nextId = 1
    /\ lastTopicOp = NoTopicOp
    /\ InitStoreVars
    /\ InitQuestionVars
    /\ InitCallVars

SlugNext ==
    \/ CallGenerateSlug
    \/ CallGenerateSlugUtils
    \/ RepeatCall

SpecSlug == SlugInit /\ [][SlugNext]_vars

\* topic creation over an initially empty topics table
TopicInit ==
    /\ name = <<>>
    /\ InitSlugVars
    /\ topics = {}
    /\ nextId = 1
    /\ lastTopicOp = NoTopicOp
    /\ InitStoreVars
    /\ InitQuestionVars
    /\ InitCallVars

TopicNext ==
    \E n \in TopicNames : \E s \in SlugInputs : \E d \in Descriptions :
        \E dbok \in BOOLEAN : CreateTopic(n, s, d, dbok)

SpecTopic == TopicInit /\ [][TopicNext]_vars

\* topic updates over a topics table that holds two topics
UpdateInit ==
    /\ name = <<>>
    /\ InitSlugVars
    /\ topics = StoredTopics
    /\ nextId = 3
    /\ lastTopicOp = NoTopicOp
    /\ InitStoreVars
    /\ InitQuestionVars
    /\ InitCallVars

UpdateNext ==
    \E id \in 1..nextId : \E n \in UpdateNames : \E s \in UpdateSlugs :
        \E d \in UpdateDescriptions : \E dbok \in BOOLEAN : UpdateTopic(id, n, s, d, dbok)

SpecUpdate == UpdateInit /\ [][UpdateNext]_vars

\* topics, questions and bulk ingestion interleaved: topics are created and
\* deleted while questions are written one by one and in batches
RefPayloads == [topic_slug : {ExistingSlug}, questions : SeqsUpTo({"valid"}, 1)]

RefUpdatePayloads == {p \in UpdateQuestionPayloads :
                         \A f \in QuestionFields \ {"topic_id"} : p[f] = None}

RefCreatePayloads == {p \in CreateQuestionPayloads : p.difficulty = None /\ p.tags = None}

RefNext ==
    \/ /\ nextId <= MaxTopics
       /\ \E dbok \in BOOLEAN : CreateTopic(<<"B", " ", "a">>, None, None, dbok)
    \/ \E id \in 1..MaxTopics : \E dbok \in BOOLEAN : DeleteTopic(id, dbok)
    \/ /\ lastQuestionOp.seq < MaxQuestions + MaxQuestionCalls
       /\ \E p \in RefCreatePayloads : \E dbok \in BOOLEAN : CreateQuestion(p, dbok)
    \/ /\ lastQuestionOp.seq < MaxQuestions + MaxQuestionCalls
       /\ \E id \in 1..MaxQuestions : \E p \in RefUpdatePayloads :
              \E dbok \in BOOLEAN : UpdateQuestion(id, p, dbok)
    \/ \E c \in Calls : \E p \in RefPayloads : Submit(c, p)
    \/ \E c \in Calls : ResolveTopic(c, TRUE)
    \/ \E c \in Calls : BeginTransaction(c, TRUE)
    \/ \E c \in Calls : ExecuteInsert(c)
    \/ \E c \in Calls : CommitRequest(c, TRUE)
    \/ \E c \in Calls : CommitResponse(c, TRUE)
    \/ \E c \in Calls : RollbackTransaction(c, TRUE)

SpecRef == Init /\ [][RefNext]_vars

\* question listing over a questions table that holds two questions
PageInit ==
    /\ name = <<>>
    /\ InitSlugVars
    /\ topics = StoredTopics
    /\ nextId = 3
    /\ lastTopicOp = NoTopicOp
    /\ InitStoreVars
    /\ questions = StoredQuestions
    /\ nextQid = 3
    /\ lastQuestionOp = NoQuestionOp
    /\ InitCallVars

PageNext ==
    \E query \in QuestionQueries : \E checks \in BOOLEAN : \E dbok \in BOOLEAN :
        GetQuestions(query, checks, dbok)

SpecPage == PageInit /\ [][PageNext]_vars

\* question reads over a questions table that holds one question, with any
\* of the option lists
OptionsInit ==
    /\ name = <<>>
    /\ InitSlugVars
    /\ topics = StoredTopics
    /\ nextId = 3
    /\ lastTopicOp = NoTopicOp
    /\ InitStoreVars
    /\ \E o \in OptionLists :
           questions = {[q EXCEPT !.options = o] :
                            q \in {r \in StoredQuestions : r.id = 1}}
    /\ nextQid = 2
    /\ lastQuestionOp = NoQuestionOp
    /\ InitCallVars

OptionsNext ==
    \E id \in 1..nextQid : \E dbok \in BOOLEAN : GetQuestion(id, dbok)

SpecOptions == OptionsInit /\ [][OptionsNext]_vars

\* partial updates of topics and of questions over tables that hold two
\* rows each; a run updates records of one kind
FramePayloads ==
    {p \in UpdateQuestionPayloads :
        Cardinality({f \in QuestionFields : p[f] /= None})
            \in {0, 1, Cardinality(QuestionFields) - 1, Cardinality(QuestionFields)}}

FrameInit ==
    /\ name = <<>>
    /\ InitSlugVars
    /\ topics = StoredTopics
    /\ nextId = 3
    /\ lastTopicOp = NoTopicOp
    /\ InitStoreVars
    /\ questions = StoredQuestions
    /\ nextQid = 3
    /\ lastQuestionOp = NoQuestionOp
    /\ InitCallVars

FrameNext ==
    \/ /\ lastQuestionOp = NoQuestionOp
       /\ \E id \in 1..nextId : \E n \in UpdateNames : \E s \in UpdateSlugs :
              \E d \in UpdateDescriptions : \E dbok \in BOOLEAN :
                  UpdateTopic(id, n, s, d, dbok)
    \/ /\ lastTopicOp = NoTopicOp
       /\ lastQuestionOp.seq < MaxQuestionCalls
       /\ \E id \in 1..nextQid : \E p \in FramePayloads : \E dbok \in BOOLEAN :
              UpdateQuestion(id, p, dbok)

SpecFrame == FrameInit /\ [][FrameNext]_vars

---------------------------------------------------------------------------
(* Properties of bulk ingestion, checked under Spec *)

\* the rows of the batch of call c a reader can see
VisibleRows(c) == rows \cap BatchRows(c)

Returned(c) == result[c].kind = "BulkResult"

\* C1: whenever bulk_create returns a BulkResult, either failed = 0, every
\* row of the batch is visible and the transaction was committed, or
\* failed > 0, no row of the batch is visible and it was not committed
C1_AllOrNothing ==
    \A c \in Calls : Returned(c) =>
        \/ /\ result[c].failed = 0
           /\ BatchRows(c) \subseteq rows
           /\ txn[c] = "committed"
        \/ /\ result[c].failed > 0
           /\ VisibleRows(c) = {}
           /\ txn[c] = "rolledback"

\* one batch committed in full, another rolled back although one of its
\* items had been inserted
C1_Witness ==
    \E c, d \in Calls :
        /\ Returned(c) /\ result[c].failed = 0 /\ result[c].created = MaxItems
        /\ Returned(d) /\ result[d].failed > 0 /\ result[d].created > 0

\* the batch has exactly one invalid item, at position k
OnlyInvalidAt(q, k) ==
    /\ k \in 1..Len(q)
    /\ \A i \in 1..Len(q) : (q[i] = "invalid") <=> (i = k)

\* C2: a batch whose only invalid item is at position k returns failed = 1
\* and the single diagnostic "Question k: ...", and none of its rows is
\* visible
C2_SingleFailureReported ==
    \A c \in Calls : \A k \in 1..MaxItems :
        (Returned(c) /\ OnlyInvalidAt(payload[c].questions, k)) =>
            /\ result[c].failed = 1
            /\ Len(result[c].errors) = 1
            /\ SubSeq(result[c].errors[1], 1, 3) = <<"Question ", k, ": ">>
            /\ VisibleRows(c) = {}

\* the slug of the payload of call c matches no topic
SlugUnknown(c) == ~(\E t \in topics : t.slug = payload[c].topic_slug)

\* C3: a call whose topic_slug matches no topic never gets past the lookup:
\* it ends with the 404 answer quoting the slug (or the 500 answer of a
\* failed lookup), no transaction was begun, no INSERT executed, no row stored
C3_UnknownSlugNotFound ==
    \A c \in Calls :
        /\ (SlugUnknown(c) /\ pc[c] \notin {"idle", "resolve"}) =>
              /\ pc[c] \in {"done", "abandoned"}
              /\ txn[c] = "none"
              /\ attempts[c] = <<>>
              /\ txrows[c] = {}
              /\ VisibleRows(c) = {}
              /\ pc[c] = "done" =>
                    \/ result[c] = ErrorResult(404, <<"Topic with slug '",
                                                      payload[c].topic_slug, "' not found">>)
                    \/ result[c] = ErrorResult(500, <<"Database error: ", "io">>)
        /\ (result[c].kind = "Error" /\ result[c].status = 404) => SlugUnknown(c)

C3_Witness ==
    \E c \in Calls :
        /\ result[c].kind = "Error" /\ result[c].status = 404
        /\ payload[c].questions /= <<>>
        /\ \E d \in Calls : txn[d] = "committed"

\* the call ended with the fatal answer of a failed begin, commit or rollback
FatalTxnError(c) ==
    /\ result[c].kind = "Error"
    /\ result[c].message[1] \in {"Failed to start transaction: ",
                                 "Failed to commit transaction: ",
                                 "Failed to rollback transaction: "}

\* the transaction of call c is no longer held
Released(c) == txn[c] \notin {"open", "aborted"}

\* C4 as stated: after a fatal begin/commit/rollback failure the transaction
\* is released and no row of the batch is visible
C4_FatalLeavesNoRows ==
    \A c \in Calls : FatalTxnError(c) => (Released(c) /\ VisibleRows(c) = {})

\* C4 as amended: a commit that did not take effect is answered with the
\* fatal error, never with a BulkResult; after a fatal failure the
\* transaction is released, and no row of the batch is visible unless the
\* failure is a commit failure raised after the store had applied the
\* commit, in which case the whole batch is visible
C4_FatalReleased ==
    \A c \in Calls :
        /\ (pc[c] = "done" /\ decided[c] /= <<>> /\ decided[c][1].kind = "commit"
              /\ txn[c] /= "committed") => FatalTxnError(c)
        /\ FatalTxnError(c) =>
              /\ Released(c)
              /\ \/ VisibleRows(c) = {}
                 \/ /\ result[c].message[1] = "Failed to commit transaction: "
                    /\ txn[c] = "committed"
                    /\ BatchRows(c) \subseteq rows

\* a commit refused by the store after an item had been inserted
C4_Witness ==
    \E c \in Calls :
        /\ FatalTxnError(c)
        /\ result[c].message[1] = "Failed to commit transaction: "
        /\ created[c] > 0
        /\ txn[c] = "rolledback"

\* no row of a batch is visible before its commit was applied, and a reader
\* sees none or all of the rows of a batch
Isolated(c) ==
    /\ VisibleRows(c) /= {} => txn[c] = "committed"
    /\ VisibleRows(c) \in {{}, BatchRows(c)}
    /\ observed \cap BatchRows(c) \in {{}, BatchRows(c)}

AbandonedAt(c, points) ==
    /\ result[c].kind = "abandoned"
    /\ result[c].at \in points

\* C5 as stated: batches are isolated, and a call abandoned at any store
\* I/O point between begin and the completion of commit is rolled back
\* and none of its rows is ever visible
C5_AbandonedNeverVisible ==
    \A c \in Calls :
        /\ Isolated(c)
        /\ AbandonedAt(c, {"loop", "commit", "commit_wait", "rollback"}) =>
              (txn[c] = "rolledback" /\ VisibleRows(c) = {})

\* C5 as amended: batches are isolated; a call abandoned before its COMMIT
\* reached the store is rolled back and none of its rows is ever visible; a
\* call abandoned while it awaits the answer to its COMMIT is released, with
\* its batch visible in full or not at all
C5_Isolation ==
    \A c \in Calls :
        /\ Isolated(c)
        /\ AbandonedAt(c, {"loop", "commit", "rollback"}) =>
              (txn[c] = "rolledback" /\ VisibleRows(c) = {})
        /\ AbandonedAt(c, {"commit_wait"}) => Released(c)

\* a call abandoned after an INSERT while another batch is committed and read
C5_Witness ==
    \E c, d \in Calls :
        /\ AbandonedAt(c, {"loop", "commit"})
        /\ created[c] > 0
        /\ txn[d] = "committed"
        /\ observed = BatchRows(d)
        /\ observed /= {}

\* C6: the items are attempted once each in submission order, and the one
\* commit-or-rollback decision is taken after the last item was attempted
C6_EveryItemAttempted ==
    \A c \in Calls :
        /\ attempts[c] = [i \in 1..index[c] |-> i]
        /\ Len(decided[c]) <= 1
        /\ decided[c] /= <<>> =>
              /\ decided[c][1].after = Len(payload[c].questions)
              /\ Len(attempts[c]) = Len(payload[c].questions)
        /\ (pc[c] \in {"commit", "commit_wait", "rollback"} \/ Returned(c)) =>
              decided[c] /= <<>>
        /\ (txn[c] \in {"committed", "rolledback"} /\ result[c].kind /= "abandoned") =>
              Len(attempts[c]) = Len(payload[c].questions)

\* the first item failed and the items after it were attempted all the same
C6_Witness ==
    \E c \in Calls :
        /\ Len(payload[c].questions) = MaxItems
        /\ payload[c].questions[1] = "invalid"
        /\ decided[c] /= <<>>
        /\ Len(attempts[c]) = MaxItems

\* the 1-based positions of the items of q whose INSERT fails: an invalid
\* item, and every item after one
FailedPositions(q) == {i \in 1..Len(q) : \E j \in 1..i : q[j] = "invalid"}

\* C18: every BulkResult returned for a batch of n items has
\* created + failed = n and length(errors) = failed; errors holds one entry
\* per failed item, in ascending order of position, and the entry of the
\* item at 1-based position i begins with "Question i: "
C18_BulkResultAccounting ==
    \A c \in Calls : Returned(c) =>
        LET q == payload[c].questions
            r == result[c]
        IN  /\ r.created + r.failed = Len(q)
            /\ Len(r.errors) = r.failed
            /\ r.failed = Cardinality(FailedPositions(q))
            /\ {r.errors[k][2] : k \in 1..Len(r.errors)} = FailedPositions(q)
            /\ \A k, l \in 1..Len(r.errors) : k < l => r.errors[k][2] < r.errors[l][2]
            /\ \A k \in 1..Len(r.errors) :
                   SubSeq(r.errors[k], 1, 3) = <<"Question ", r.errors[k][2], ": ">>

\* a returned result whose second item failed after the first was inserted
C18_Witness ==
    \E c \in Calls :
        /\ Returned(c)
        /\ payload[c].questions = <<"valid", "invalid">>
        /\ result[c].created = 1
        /\ result[c].failed = 1
        /\ Len(result[c].errors) = 1
        /\ result[c].errors[1][2] = 2

---------------------------------------------------------------------------
(* Properties of the slug generator, checked under SpecSlug *)

AlphaNum == LowerLetters \cup Digits

\* ^[a-z0-9]+(-[a-z0-9]+)*$
MatchesSlugPattern(s) ==
    /\ s /= <<>>
    /\ \A i \in 1..Len(s) : s[i] \in AlphaNum \cup {"-"}
    /\ s[1] /= "-"
    /\ s[Len(s)] /= "-"
    /\ \A i \in 1..(Len(s) - 1) : ~(s[i] = "-" /\ s[i + 1] = "-")

\* C7: for every name whose cleaned form is not empty, the slug returned
\* matches ^[a-z0-9]+(-[a-z0-9]+)*$
C7_SlugPattern ==
    (slugFn /= "none" /\ clean_slug(name) /= <<>>) => MatchesSlugPattern(slugOut)

\* two words separated by a space followed by a hyphen
C7_Witness ==
    /\ slugFn /= "none"
    /\ Len(name) = 4
    /\ name[2] = " "
    /\ name[3] = "-"
    /\ slugOut = <<"a", "-", "b">>

\* C8: for every name whose cleaned form is empty, the slug returned is
\* "topic-" followed by the digest of the name, and a repeated call with the
\* same name returns the same slug
C8_FallbackTopicHash ==
    (slugFn /= "none" /\ clean_slug(name) = <<>>) =>
        /\ slugOut = TopicPrefix \o Decimal(hash_finish(name))
        /\ slugOut2 /= <<>> => slugOut2 = slugOut

\* the words of a name: non-empty runs of letters and digits
IsWord(s) == s /= <<>> /\ \A i \in 1..Len(s) : to_lowercase(s)[i] \in AlphaNum

IsWhiteRun(s) == s /= <<>> /\ \A i \in 1..Len(s) : s[i] \in WhiteSpace

\* C9: two words separated by any run of whitespace in the name are
\* separated by exactly one hyphen in the slug
C9_WhitespaceRunOneHyphen ==
    slugFn /= "none" =>
        \A i \in 1..Len(name) : \A j \in i..Len(name) :
            LET u == SubSeq(name, 1, i - 1)
                w == SubSeq(name, i, j)
                v == SubSeq(name, j + 1, Len(name))
            IN  (IsWord(u) /\ IsWhiteRun(w) /\ IsWord(v)) =>
                    slugOut = to_lowercase(u) \o <<"-">> \o to_lowercase(v)

---------------------------------------------------------------------------
(* Properties of topic creation, checked under SpecTopic *)

\* the caller supplied no slug, or one that is empty or only whitespace
BlankSlug(s) == s = None \/ \A i \in 1..Len(s[1]) : s[1][i] \in WhiteSpace

\* C10: the row create_topic persists carries generate_slug(name) when the
\* caller supplied no slug or a blank one (and only then is the slug
\* derived), and otherwise the supplied slug without its surrounding
\* whitespace
C10_CreateTopicSlug ==
    (lastTopicOp.op = "create_topic" /\ lastTopicOp.status = 200) =>
        LET row == lastTopicOp.row[1] IN
        /\ row \in topics
        /\ row.name = lastTopicOp.name
        /\ lastTopicOp.derived <=> BlankSlug(lastTopicOp.slug)
        /\ BlankSlug(lastTopicOp.slug) => row.slug = generate_slug(lastTopicOp.name)
        /\ ~BlankSlug(lastTopicOp.slug) => row.slug = trim(lastTopicOp.slug[1])

\* a topic created with a slug made of whitespace only
C10_Witness ==
    /\ lastTopicOp.op = "create_topic"
    /\ lastTopicOp.status = 200
    /\ lastTopicOp.slug = Some(<<" ", "\t">>)
    /\ lastTopicOp.name = <<"B", " ", "a">>
    /\ \E t \in topics : t.slug = <<"b", "-", "a">>

---------------------------------------------------------------------------
(* Properties of topic update, checked under SpecUpdate *)

UpdatedOk == lastTopicOp.op = "update_topic" /\ lastTopicOp.status = 200

\* the row with the given id in a topics table
TopicById(table, id) == CHOOSE t \in table : t.id = id

\* C11: update_topic with a new name and no slug leaves the stored slug of
\* the topic as it was before the call
C11_SlugKeptOnRename ==
    (lastTopicOp.op = "update_topic" /\ lastTopicOp.name /= None
        /\ lastTopicOp.slug = None) =>
        /\ {t.id : t \in topics} = {t.id : t \in lastTopicOp.before}
        /\ \A t \in lastTopicOp.before : TopicById(topics, t.id).slug = t.slug

\* a topic renamed without a slug in the payload
C11_Witness ==
    /\ UpdatedOk
    /\ lastTopicOp.name = Some(<<"c">>)
    /\ lastTopicOp.slug = None
    /\ TopicById(topics, lastTopicOp.id).name = <<"c">>
    /\ TopicById(lastTopicOp.before, lastTopicOp.id).name /= <<"c">>

---------------------------------------------------------------------------
(* Properties of the stored slugs, checked under SpecTopic *)

\* C12: a create_topic whose slug is the slug of a stored topic is answered
\* with a conflict outcome, which is neither success nor the internal error,
\* and stores nothing; no two stored topics share a slug
C12_ConflictOnDuplicateSlug ==
    /\ (lastTopicOp.op = "create_topic" /\ lastTopicOp.outcome = "unique_violation") =>
          /\ lastTopicOp.status \notin {200, 500}
          /\ lastTopicOp.row = None
    /\ \A t, u \in topics : t.slug = u.slug => t = u

\* C13: every stored slug is URL-safe: not empty and made of [a-z0-9-] only
C13_StoredSlugUrlSafe ==
    \A t \in topics :
        /\ t.slug /= <<>>
        /\ \A i \in 1..Len(t.slug) : t.slug[i] \in SlugChars

---------------------------------------------------------------------------
(* Referential integrity, checked under SpecRef *)

\* C14: the topic_id of every stored question, written one by one or in a
\* committed batch, is the id of a stored topic
C14_QuestionsReferToTopics ==
    /\ \A q \in questions : \E t \in topics : t.id = q.topic_id
    /\ \A c \in Calls : VisibleRows(c) /= {} => \E t \in topics : t.id = topic_id[c][1]

---------------------------------------------------------------------------
(* Properties of the question listing, checked under SpecPage *)

Listed == lastQuestionOp.op = "get_questions"

\* x is in lo..hi on i64
I64Within(x, lo, hi) == ~I64Less(x, I64(lo)) /\ ~I64Less(I64(hi), x)

\* C15: for every page and limit input, absent, zero and negative ones
\* included, the effective page is max(page, 1) with default 1 and the
\* effective limit is min(max(limit, 1), 100) with default 20, so page >= 1
\* and 1 <= limit <= 100; limit=500 becomes 100 and page=0 becomes 1
C15_PaginationClamped ==
    Listed =>
        LET q == lastQuestionOp.query
            page == lastQuestionOp.page
            limit == lastQuestionOp.limit
        IN  /\ ~I64Less(page, I64(1))
            /\ I64Within(limit, 1, 100)
            /\ q.page = None => page = I64(1)
            /\ q.limit = None => limit = I64(20)
            /\ (q.page /= None /\ I64Less(q.page[1], I64(1))) => page = I64(1)
            /\ (q.page /= None /\ ~I64Less(q.page[1], I64(1))) => page = q.page[1]
            /\ (q.limit /= None /\ I64Less(q.limit[1], I64(1))) => limit = I64(1)
            /\ (q.limit /= None /\ I64Less(I64(100), q.limit[1])) => limit = I64(100)
            /\ (q.limit /= None /\ I64Within(q.limit[1], 1, 100)) => limit = q.limit[1]

C15_Witness ==
    /\ Listed
    /\ lastQuestionOp.query = [page |-> Some(I64(0)), limit |-> Some(I64(500))]
    /\ lastQuestionOp.page = I64(1)
    /\ lastQuestionOp.limit = I64(100)

\* C19: for every 64-bit page and limit input the offset passed to the store
\* is the mathematical product (page - 1) * limit of the clamped values and
\* is not negative: the multiplication neither wraps nor panics
C19_OffsetNeverOverflows ==
    Listed =>
        /\ lastQuestionOp.outcome /= "panic"
        /\ lastQuestionOp.offset /= None
        /\ ~IsNegative(lastQuestionOp.offset[1])
        /\ WideProduct(wrapping_sub(lastQuestionOp.page, I64(1)), lastQuestionOp.limit)
               = lastQuestionOp.offset[1] \o [i \in 1..I64Bytes |-> 0]

---------------------------------------------------------------------------
(* Properties of the option map, checked under SpecOptions *)

UpperCaseLetters == SubSeq(AsciiFrom65, 1, 26)

\* C16: the map produced for an option list of length n has exactly n
\* entries, the option at 0-based position i is stored under the i-th
\* upper-case letter (0 -> 'A', 1 -> 'B', ...), the empty list gives the
\* empty map, and the stored option list is not changed
C16_OptionsLettered ==
    (lastQuestionOp.op = "get_question" /\ lastQuestionOp.status = 200) =>
        LET stored == CHOOSE q \in questions : q.id = lastQuestionOp.id
            map == lastQuestionOp.data[1].options
        IN  /\ questions = lastQuestionOp.before
            /\ Cardinality(DOMAIN map) = Len(stored.options)
            /\ \A i \in 1..Len(stored.options) :
                   /\ i \in DOMAIN UpperCaseLetters
                   /\ <<UpperCaseLetters[i]>> \in DOMAIN map
                   /\ map[<<UpperCaseLetters[i]>>] = stored.options[i]

---------------------------------------------------------------------------
(* Properties of partial updates, checked under SpecFrame *)

\* the rows of a table with the given id
RowsById(table, id) == {r \in table : r.id = id}

\* the frame of one update: after is before except possibly for the row with
\* the given id, which is still there; a status other than 200 changes
\* nothing; 404 is the answer exactly to an id no row has, unless the store
\* failed (500)
UpdateFrame(before, after, id, status) ==
    /\ status \in {200, 404, 500}
    /\ RowsById(before, id) = {} => (status \in {404, 500} /\ after = before)
    /\ status = 404 => RowsById(before, id) = {}
    /\ status /= 200 => after = before
    /\ status = 200 =>
           /\ Cardinality(RowsById(before, id)) = 1
           /\ Cardinality(RowsById(after, id)) = 1
           /\ after \ RowsById(after, id) = before \ RowsById(before, id)

\* C17: update_question and update_topic change only the fields present in
\* the payload: an omitted field keeps its stored value, every other record
\* is unchanged, and an update of an id that does not exist is answered with
\* NotFound and changes nothing
C17_PartialUpdateFrame ==
    /\ lastTopicOp.op = "update_topic" =>
           /\ UpdateFrame(lastTopicOp.before, topics, lastTopicOp.id, lastTopicOp.status)
           /\ lastTopicOp.status = 200 =>
                  LET old == TopicById(lastTopicOp.before, lastTopicOp.id)
                      new == TopicById(topics, lastTopicOp.id)
                  IN  \A f \in {"name", "slug", "description"} :
                          lastTopicOp[f] = None => new[f] = old[f]
    /\ lastQuestionOp.op = "update_question" =>
           /\ UpdateFrame(lastQuestionOp.before, questions, lastQuestionOp.id,
                          lastQuestionOp.status)
           /\ lastQuestionOp.status = 200 =>
                  LET old == CHOOSE q \in lastQuestionOp.before : q.id = lastQuestionOp.id
                      new == CHOOSE q \in questions : q.id = lastQuestionOp.id
                  IN  \A f \in QuestionFields :
                          lastQuestionOp.payload[f] = None => new[f] = old[f]

\* a question updated with a new text and new tags and nothing else, while
\* the other question is stored
C17_Witness ==
    /\ lastQuestionOp.op = "update_question"
    /\ lastQuestionOp.status = 200
    /\ lastQuestionOp.payload.question /= None
    /\ lastQuestionOp.payload.options = None
    /\ questions /= lastQuestionOp.before
    /\ Cardinality(questions) = 2

=============================================================================
